---------------------------- MODULE Spec2Model ----------------------------
(***************************************************************************)
(* The kubernetes scheduler driver of torpedo                              *)
(* (drivers/scheduler/k8s/k8s.go).  Every driver operation is one atomic   *)
(* action that runs the whole handler against the cluster.  The Cluster    *)
(* API Client (pkg/k8sutils) is the environment: which of its calls fails  *)
(* and what volume a claim resolves to are inputs of the action.           *)
(***************************************************************************)
EXTENDS Integers, Sequences, FiniteSets, TLC

(* Longest AppKeys list a Schedule call is given. *)
MaxKeys == 2

(* ------------------------------------------------------------------ *)
(* App spec factory and app specs (spec section 3 and 4.1)             *)
(* ------------------------------------------------------------------ *)

VARIABLES
    registry,   \* the factory: the keys of the registered app specs, in registration order
    cluster,    \* names of the resources that exist in the cluster
    scheduled,  \* <<context, creates>> of every context a Schedule returned
    ret,        \* the call the scenario is looking at: its arguments and results
    life,       \* what the scenario has seen of each context: its place in the lifecycle
    running,    \* the calls two scenarios have in progress at once, client call by client call
    test,       \* the StopScheduler scenario: where it is, and the nodes it has stopped
    nodes,      \* k.nodes: the snapshot Init takes (k8s.go 22)
    items,      \* the nodes the cluster lists: nodes.Items of k8sutils.GetNodes()
    inits       \* how many calls of Init have returned nil

(* The node snapshot and what it is taken from. *)
driver == <<nodes, items, inits>>

(* What the operations on contexts leave alone: the node snapshot, and     *)
(* what the scenarios keep for themselves.                                 *)
aux == <<life, running, test, driver>>

vars == <<registry, cluster, scheduled, ret, life, running, test, nodes, items, inits>>

(* The app specs a build can link in, and the registries their init() leave. *)
Apps == {"postgres", "echo", "legacy"}
Registries == {<<"postgres", "echo">>, <<"echo", "postgres", "legacy">>}

(* A key no app registers. *)
UnknownKey == "nosuch"

AppKeySet == Apps \cup {UnknownKey}

IsRegistered(key) == \E i \in 1..Len(registry) : registry[i] = key

InstanceIDs == {"run-1"}

SCKind == "StorageClass"
PVCKind == "PersistentVolumeClaim"
DeploymentKind == "Deployment"
ServiceKind == "Service"

(* The resource kinds each registered app expands to. *)
Template(key) ==
    CASE key = "postgres" ->
            [storage |-> <<SCKind, PVCKind>>,
             core    |-> <<DeploymentKind, DeploymentKind, DeploymentKind>>]
      [] key = "echo" ->
            [storage |-> <<PVCKind>>,
             core    |-> <<DeploymentKind>>]
      [] OTHER ->
            [storage |-> <<PVCKind, ServiceKind, PVCKind>>,
             core    |-> <<DeploymentKind, ServiceKind>>]

(* AppSpec.Storage(instanceID): the ordered storage objects of an app. *)
Storage(app, instanceID) ==
    [i \in 1..Len(Template(app).storage) |->
        [kind |-> Template(app).storage[i],
         name |-> <<app, instanceID, "storage", i>>]]

(* AppSpec.Core(instanceID): the ordered core objects of an app. *)
Core(app, instanceID) ==
    [i \in 1..Len(Template(app).core) |->
        [kind |-> Template(app).core[i],
         name |-> <<app, instanceID, "core", i>>]]

NoErr == [kind |-> "nil"]

(* factory.Get(key) *)
FactoryGet(key) ==
    IF IsRegistered(key)
    THEN [spec |-> key, err |-> NoErr]
    ELSE [spec |-> "", err |-> [kind |-> "UnknownAppKind", key |-> key]]

(* factory.GetAll() *)
FactoryGetAll == registry

(* ------------------------------------------------------------------ *)
(* Cluster API Client                                                  *)
(* ------------------------------------------------------------------ *)

AllObjects ==
    UNION {{Storage(a, id)[i] : i \in 1..Len(Storage(a, id))}
           \cup {Core(a, id)[i] : i \in 1..Len(Core(a, id))} :
           a \in Apps, id \in InstanceIDs}

ObjectNames == {o.name : o \in AllObjects}

CreateFns == {"CreateStorageClass", "CreatePersistentVolumeClaim", "CreateDeployment"}
DeleteFns == {"DeleteStorageClass", "DeletePersistentVolumeClaim", "DeleteDeployment"}

(* What a successful client call does to the cluster. *)
Effect(fn, obj, cl) ==
    IF fn \in CreateFns THEN cl \cup {obj.name}
    ELSE IF fn \in DeleteFns THEN cl \ {obj.name}
    ELSE cl

(* The run of one handler: the cluster, the dispatches made so far (client *)
(* calls and failed kind checks), the position of the client call that     *)
(* fails (0: none), and whether the last call succeeded.                   *)
Begin(cl, failAt) == [cluster |-> cl, trace |-> <<>>, failAt |-> failAt, ok |-> TRUE]

(* One client call fn(obj). *)
Invoke(st, fn, obj) ==
    LET failed == (Len(st.trace) + 1 = st.failAt)
    IN  [st EXCEPT !.trace   = Append(@, [fn |-> fn, obj |-> obj, ok |-> ~failed]),
                   !.cluster = IF failed THEN @ ELSE Effect(fn, obj, @),
                   !.ok      = ~failed]

(* A kind check no case of which matched: nothing is sent to the client. *)
Unsupported(st, obj) ==
    [st EXCEPT !.trace = Append(@, [fn |-> "unsupported", obj |-> obj, ok |-> FALSE]),
               !.ok    = FALSE]

Err(kind, app, what, obj) ==
    [kind |-> kind, App |-> app, cause |-> what, object |-> obj.name]

(* ------------------------------------------------------------------ *)
(* k8s.Init, k8s.GetNodes                                              *)
(* ------------------------------------------------------------------ *)

(* k8sutils.IsNodeMaster(n) *)
IsNodeMaster(n) == n.master

(* k8s.go 43: addr.Type == v1.NodeExternalIP || addr.Type == v1.NodeInternalIP *)
IsIP(addr) == addr.Type \in {"ExternalIP", "InternalIP"}

(* k8s.go 40-59: the scheduler.Node made of a listed node. *)
NodeOf(n) ==
    LET ips == SelectSeq(n.Addresses, IsIP)
    IN  [Name |-> n.Name,
         Addresses |-> [i \in 1..Len(ips) |-> ips[i].Address],
         Type |-> IF IsNodeMaster(n) THEN "Master" ELSE "Worker"]

RECURSIVE AppendNodes(_, _, _)
(* k8s.go 40-60: k.nodes = append(k.nodes, ...) for each listed node. *)
AppendNodes(ns, list, i) ==
    IF i > Len(list) THEN ns
    ELSE AppendNodes(Append(ns, NodeOf(list[i])), list, i + 1)

(* Mutant: the snapshot is emptied before the nodes are listed. *)
InitResetFirst(ns, listing) ==
    IF listing.err # NoErr THEN [nodes |-> <<>>, err |-> listing.err]
    ELSE [nodes |-> AppendNodes(<<>>, listing.items, 1), err |-> NoErr]

(* Mutant: every listed node that is no master is left out. *)
InitMastersOnly(ns, listing) ==
    IF listing.err # NoErr THEN [nodes |-> ns, err |-> listing.err]
    ELSE [nodes |-> AppendNodes(ns, SelectSeq(listing.items, IsNodeMaster), 1),
          err |-> NoErr]

(* k8s.go 34-63: Init, on the snapshot ns; listing is what                 *)
(* k8sutils.GetNodes() returns.                                            *)
K8sInit(ns, listing) ==
    IF listing.err # NoErr THEN [nodes |-> ns, err |-> listing.err]
    ELSE [nodes |-> AppendNodes(ns, listing.items, 1), err |-> NoErr]

(* k8s.go 25-27 *)
GetNodes(ns) == ns

(* ------------------------------------------------------------------ *)
(* k8s.Schedule                                                        *)
(* ------------------------------------------------------------------ *)

(* Mutant: AppKeys is ignored and every registered spec is scheduled. *)
ResolveSpecsAll(appKeys, i, specs) == [specs |-> FactoryGetAll, err |-> NoErr]

RECURSIVE ResolveSpecs(_, _, _)
(* k8s.go 66-77: the specs of AppKeys, or all of them. *)
ResolveSpecs(appKeys, i, specs) ==
    IF Len(appKeys) = 0 THEN [specs |-> FactoryGetAll, err |-> NoErr]
    ELSE IF i > Len(appKeys) THEN [specs |-> specs, err |-> NoErr]
    ELSE LET g == FactoryGet(appKeys[i])
         IN  IF g.err # NoErr THEN [specs |-> <<>>, err |-> g.err]
             ELSE ResolveSpecs(appKeys, i + 1, Append(specs, g.spec))

RECURSIVE ScheduleStorage(_, _, _, _)
(* k8s.go 81-106: returns the run and the error. *)
ScheduleStorage(spec, objs, i, st) ==
    IF i > Len(objs) THEN [st |-> st, err |-> NoErr]
    ELSE IF objs[i].kind = SCKind THEN
        LET s == Invoke(st, "CreateStorageClass", objs[i])
        IN  IF ~s.ok
            THEN [st |-> s, err |-> Err("FailedToScheduleApp", spec, "create", objs[i])]
            ELSE ScheduleStorage(spec, objs, i + 1, s)
    ELSE IF objs[i].kind = PVCKind THEN
        LET s == Invoke(st, "CreatePersistentVolumeClaim", objs[i])
        IN  IF ~s.ok
            THEN [st |-> s, err |-> Err("FailedToScheduleApp", spec, "create", objs[i])]
            ELSE ScheduleStorage(spec, objs, i + 1, s)
    ELSE [st |-> Unsupported(st, objs[i]),
          err |-> Err("FailedToScheduleApp", spec, "unsupported", objs[i])]

RECURSIVE ScheduleCore(_, _, _, _)
(* k8s.go 108-124 *)
ScheduleCore(spec, objs, i, st) ==
    IF i > Len(objs) THEN [st |-> st, err |-> NoErr]
    ELSE IF objs[i].kind = DeploymentKind THEN
        LET s == Invoke(st, "CreateDeployment", objs[i])
        IN  IF ~s.ok
            THEN [st |-> s, err |-> Err("FailedToScheduleApp", spec, "create", objs[i])]
            ELSE ScheduleCore(spec, objs, i + 1, s)
    ELSE [st |-> Unsupported(st, objs[i]),
          err |-> Err("FailedToScheduleApp", spec, "unsupported", objs[i])]

(* Mutant: the failure path hands back the contexts appended so far. *)
ScheduleFailurePartial(contexts, r) ==
    [contexts |-> contexts, err |-> r.err, cluster |-> r.st.cluster, trace |-> r.st.trace]

RECURSIVE RollBack(_, _, _)
RollBack(trace, i, st) ==
    IF i = 0 THEN st
    ELSE IF trace[i].ok /\ trace[i].fn \in CreateFns
         THEN RollBack(trace, i - 1,
                       [st EXCEPT !.cluster = @ \ {trace[i].obj.name},
                                  !.trace = Append(@, [fn |-> "DeleteDeployment",
                                                       obj |-> trace[i].obj, ok |-> TRUE])])
         ELSE RollBack(trace, i - 1, st)

(* Mutant: the failure path deletes what the call created. *)
ScheduleFailureRollBack(contexts, r) ==
    LET st == RollBack(r.st.trace, Len(r.st.trace), r.st)
    IN  [contexts |-> <<>>, err |-> r.err, cluster |-> st.cluster, trace |-> st.trace]

(* k8s.go 85, 94, 101, 112, 119: what Schedule returns with an error. *)
ScheduleFailure(contexts, r) ==
    [contexts |-> <<>>, err |-> r.err, cluster |-> r.st.cluster, trace |-> r.st.trace]

(* k8s.go 126-134 *)
NewContext(instanceID, spec) == [UID |-> instanceID, App |-> spec]

RECURSIVE ScheduleSpecsCoreFirst(_, _, _, _, _)
(* Mutant: the core loop runs before the storage loop. *)
ScheduleSpecsCoreFirst(specs, k, instanceID, contexts, st) ==
    IF k > Len(specs)
    THEN [contexts |-> contexts, err |-> NoErr, cluster |-> st.cluster, trace |-> st.trace]
    ELSE LET s1 == ScheduleCore(specs[k], Core(specs[k], instanceID), 1, st)
         IN  IF s1.err # NoErr THEN ScheduleFailure(contexts, s1)
             ELSE LET s2 == ScheduleStorage(specs[k], Storage(specs[k], instanceID), 1, s1.st)
                  IN  IF s2.err # NoErr THEN ScheduleFailure(contexts, s2)
                      ELSE ScheduleSpecsCoreFirst(specs, k + 1, instanceID,
                               Append(contexts, NewContext(instanceID, specs[k])), s2.st)

RECURSIVE ScheduleSpecs(_, _, _, _, _)
(* k8s.go 79-137: the loop over the resolved specs. *)
ScheduleSpecs(specs, k, instanceID, contexts, st) ==
    IF k > Len(specs)
    THEN [contexts |-> contexts, err |-> NoErr, cluster |-> st.cluster, trace |-> st.trace]
    ELSE LET s1 == ScheduleStorage(specs[k], Storage(specs[k], instanceID), 1, st)
         IN  IF s1.err # NoErr THEN ScheduleFailure(contexts, s1)
             ELSE LET s2 == ScheduleCore(specs[k], Core(specs[k], instanceID), 1, s1.st)
                  IN  IF s2.err # NoErr THEN ScheduleFailure(contexts, s2)
                      ELSE ScheduleSpecs(specs, k + 1, instanceID,
                                         Append(contexts, NewContext(instanceID, specs[k])),
                                         s2.st)

RECURSIVE ScheduleEachKey(_, _, _, _, _)
ScheduleEachKey(appKeys, i, instanceID, contexts, st) ==
    IF i > Len(appKeys)
    THEN [contexts |-> contexts, err |-> NoErr, cluster |-> st.cluster, trace |-> st.trace]
    ELSE LET g == FactoryGet(appKeys[i])
             r == ScheduleSpecs(<<g.spec>>, 1, instanceID, <<>>, st)
         IN  IF g.err # NoErr
             THEN [contexts |-> <<>>, err |-> g.err, cluster |-> st.cluster,
                   trace |-> st.trace]
             ELSE IF r.err # NoErr THEN r
             ELSE ScheduleEachKey(appKeys, i + 1, instanceID, contexts \o r.contexts,
                                  [st EXCEPT !.cluster = r.cluster, !.trace = r.trace])

(* Mutant: each key is resolved only when its turn to be scheduled comes. *)
ScheduleKeyByKey(instanceID, appKeys, cl, failAt) ==
    IF Len(appKeys) = 0
    THEN ScheduleSpecs(FactoryGetAll, 1, instanceID, <<>>, Begin(cl, failAt))
    ELSE ScheduleEachKey(appKeys, 1, instanceID, <<>>, Begin(cl, failAt))

(* k8s.go 65-138 *)
Schedule(instanceID, appKeys, cl, failAt) ==
    LET r == ResolveSpecs(appKeys, 1, <<>>)
    IN  IF r.err # NoErr
        THEN [contexts |-> <<>>, err |-> r.err, cluster |-> cl, trace |-> <<>>]
        ELSE ScheduleSpecs(r.specs, 1, instanceID, <<>>, Begin(cl, failAt))

(* ------------------------------------------------------------------ *)
(* The operations on a context                                         *)
(* ------------------------------------------------------------------ *)

RECURSIVE WaitForRunningFromSkip(_, _, _, _)
(* Mutant: a core object that is no Deployment is passed over. *)
WaitForRunningFromSkip(ctx, objs, i, st) ==
    IF i > Len(objs) THEN [st |-> st, err |-> NoErr]
    ELSE IF objs[i].kind = DeploymentKind THEN
        LET s == Invoke(st, "ValidateDeployement", objs[i])
        IN  IF ~s.ok
            THEN [st |-> s, err |-> Err("FailedToValidateApp", ctx.App, "validate", objs[i])]
            ELSE WaitForRunningFromSkip(ctx, objs, i + 1, s)
    ELSE WaitForRunningFromSkip(ctx, objs, i + 1, st)

RECURSIVE WaitForRunningFrom(_, _, _, _)
(* k8s.go 141-156 *)
WaitForRunningFrom(ctx, objs, i, st) ==
    IF i > Len(objs) THEN [st |-> st, err |-> NoErr]
    ELSE IF objs[i].kind = DeploymentKind THEN
        LET s == Invoke(st, "ValidateDeployement", objs[i])
        IN  IF ~s.ok
            THEN [st |-> s, err |-> Err("FailedToValidateApp", ctx.App, "validate", objs[i])]
            ELSE WaitForRunningFrom(ctx, objs, i + 1, s)
    ELSE [st |-> Unsupported(st, objs[i]),
          err |-> Err("FailedToValidateApp", ctx.App, "unsupported", objs[i])]

(* k8s.go 140-159 *)
WaitForRunning(ctx, cl, failAt) ==
    LET r == WaitForRunningFrom(ctx, Core(ctx.App, ctx.UID), 1, Begin(cl, failAt))
    IN  [err |-> r.err, cluster |-> r.st.cluster, trace |-> r.st.trace]

RECURSIVE DestroyFromBestEffort(_, _, _, _)
(* Mutant: after a failed delete the later deployments are deleted all the same. *)
DestroyFromBestEffort(ctx, objs, i, st) ==
    IF i > Len(objs) THEN [st |-> st, err |-> NoErr]
    ELSE IF objs[i].kind = DeploymentKind THEN
        LET s == Invoke(st, "DeleteDeployment", objs[i])
            r == DestroyFromBestEffort(ctx, objs, i + 1, s)
        IN  IF ~s.ok
            THEN [st |-> r.st, err |-> Err("FailedToDestroyApp", ctx.App, "destroy", objs[i])]
            ELSE r
    ELSE [st |-> Unsupported(st, objs[i]),
          err |-> Err("FailedToDestroyApp", ctx.App, "unsupported", objs[i])]

RECURSIVE DestroyFromAnySpec(_, _, _, _)
(* Mutant: the delete selects by instance and position only, so the        *)
(* deployment another spec has at that position goes with it.              *)
DestroyFromAnySpec(ctx, objs, i, st) ==
    IF i > Len(objs) THEN [st |-> st, err |-> NoErr]
    ELSE IF objs[i].kind = DeploymentKind THEN
        LET s == Invoke(st, "DeleteDeployment", objs[i])
            also == {n \in s.cluster : n[2] = ctx.UID /\ n[3] = "core" /\ n[4] = i}
        IN  IF ~s.ok
            THEN [st |-> s, err |-> Err("FailedToDestroyApp", ctx.App, "destroy", objs[i])]
            ELSE DestroyFromAnySpec(ctx, objs, i + 1, [s EXCEPT !.cluster = @ \ also])
    ELSE [st |-> Unsupported(st, objs[i]),
          err |-> Err("FailedToDestroyApp", ctx.App, "unsupported", objs[i])]

RECURSIVE DestroyFrom(_, _, _, _)
(* k8s.go 162-177 *)
DestroyFrom(ctx, objs, i, st) ==
    IF i > Len(objs) THEN [st |-> st, err |-> NoErr]
    ELSE IF objs[i].kind = DeploymentKind THEN
        LET s == Invoke(st, "DeleteDeployment", objs[i])
        IN  IF ~s.ok
            THEN [st |-> s, err |-> Err("FailedToDestroyApp", ctx.App, "destroy", objs[i])]
            ELSE DestroyFrom(ctx, objs, i + 1, s)
    ELSE [st |-> Unsupported(st, objs[i]),
          err |-> Err("FailedToDestroyApp", ctx.App, "unsupported", objs[i])]

(* Mutant: the loop starts at the second core object. *)
DestroySkipFirst(ctx, cl, failAt) ==
    LET r == DestroyFrom(ctx, Core(ctx.App, ctx.UID), 2, Begin(cl, failAt))
    IN  [err |-> r.err, cluster |-> r.st.cluster, trace |-> r.st.trace]

(* Mutant: once the deployments are deleted, the storage objects of the   *)
(* context are removed with them.                                          *)
DestroyWithStorage(ctx, cl, failAt) ==
    LET r == DestroyFrom(ctx, Core(ctx.App, ctx.UID), 1, Begin(cl, failAt))
        sto == Storage(ctx.App, ctx.UID)
    IN  [err |-> r.err, trace |-> r.st.trace,
         cluster |-> IF r.err = NoErr
                     THEN r.st.cluster \ {sto[i].name : i \in 1..Len(sto)}
                     ELSE r.st.cluster]

(* k8s.go 161-180 *)
Destroy(ctx, cl, failAt) ==
    LET r == DestroyFrom(ctx, Core(ctx.App, ctx.UID), 1, Begin(cl, failAt))
    IN  [err |-> r.err, cluster |-> r.st.cluster, trace |-> r.st.trace]

RECURSIVE WaitForDestroyFromNoStop(_, _, _, _)
(* Mutant: a failed validation is reported only after the loop has finished. *)
WaitForDestroyFromNoStop(ctx, objs, i, st) ==
    IF i > Len(objs)
    THEN [st |-> st,
          err |-> IF \E j \in 1..Len(st.trace) : ~st.trace[j].ok
                  THEN Err("FailedToValidateAppDestroy", ctx.App, "validate destroy",
                           objs[Len(objs)])
                  ELSE NoErr]
    ELSE IF objs[i].kind = DeploymentKind THEN
        WaitForDestroyFromNoStop(ctx, objs, i + 1,
                                 Invoke(st, "ValidateTerminatedDeployment", objs[i]))
    ELSE [st |-> Unsupported(st, objs[i]),
          err |-> Err("FailedToValidateAppDestroy", ctx.App, "unsupported", objs[i])]

RECURSIVE WaitForDestroyFrom(_, _, _, _)
(* k8s.go 183-198 *)
WaitForDestroyFrom(ctx, objs, i, st) ==
    IF i > Len(objs) THEN [st |-> st, err |-> NoErr]
    ELSE IF objs[i].kind = DeploymentKind THEN
        LET s == Invoke(st, "ValidateTerminatedDeployment", objs[i])
        IN  IF ~s.ok
            THEN [st |-> s,
                  err |-> Err("FailedToValidateAppDestroy", ctx.App, "validate destroy", objs[i])]
            ELSE WaitForDestroyFrom(ctx, objs, i + 1, s)
    ELSE [st |-> Unsupported(st, objs[i]),
          err |-> Err("FailedToValidateAppDestroy", ctx.App, "unsupported", objs[i])]

(* k8s.go 182-200 *)
WaitForDestroy(ctx, cl, failAt) ==
    LET r == WaitForDestroyFrom(ctx, Core(ctx.App, ctx.UID), 1, Begin(cl, failAt))
    IN  [err |-> r.err, cluster |-> r.st.cluster, trace |-> r.st.trace]

RECURSIVE GetVolumesFromKeep(_, _, _, _, _, _)
(* Mutant: a failed lookup returns the volumes found so far with the error. *)
GetVolumesFromKeep(ctx, objs, i, volumes, st, volumeOf) ==
    IF i > Len(objs) THEN [st |-> st, err |-> NoErr, volumes |-> volumes]
    ELSE IF objs[i].kind = PVCKind THEN
        LET s == Invoke(st, "GetVolumeForPersistentVolumeClaim", objs[i])
        IN  IF ~s.ok
            THEN [st |-> s, volumes |-> volumes,
                  err |-> Err("FailedToGetVolumesForApp", ctx.App, "get volume", objs[i])]
            ELSE GetVolumesFromKeep(ctx, objs, i + 1,
                                    Append(volumes, volumeOf[objs[i].name]), s, volumeOf)
    ELSE GetVolumesFromKeep(ctx, objs, i + 1, volumes, st, volumeOf)

RECURSIVE GetVolumesFrom(_, _, _, _, _, _)
(* k8s.go 204-216: volumeOf is what the client answers for each claim. *)
GetVolumesFrom(ctx, objs, i, volumes, st, volumeOf) ==
    IF i > Len(objs) THEN [st |-> st, err |-> NoErr, volumes |-> volumes]
    ELSE IF objs[i].kind = PVCKind THEN
        LET s == Invoke(st, "GetVolumeForPersistentVolumeClaim", objs[i])
        IN  IF ~s.ok
            THEN [st |-> s, volumes |-> <<>>,
                  err |-> Err("FailedToGetVolumesForApp", ctx.App, "get volume", objs[i])]
            ELSE GetVolumesFrom(ctx, objs, i + 1,
                                Append(volumes, volumeOf[objs[i].name]), s, volumeOf)
    ELSE GetVolumesFrom(ctx, objs, i + 1, volumes, st, volumeOf)

(* k8s.go 202-219 *)
GetVolumes(ctx, cl, failAt, volumeOf) ==
    LET r == GetVolumesFrom(ctx, Storage(ctx.App, ctx.UID), 1, <<>>,
                            Begin(cl, failAt), volumeOf)
    IN  [volumes |-> r.volumes, err |-> r.err, cluster |-> r.st.cluster,
         trace |-> r.st.trace]

(* The empty map: make(map[string]map[string]string), and the nil map. *)
EmptyMap == [v \in {} |-> <<>>]

(* Mutant: a volume that is in the map already keeps its parameters. *)
MapPutKeep(m, key, value) ==
    [k \in DOMAIN m \cup {key} |-> IF k \in DOMAIN m THEN m[k] ELSE value]

(* k8s.go 241: result[vol] = params *)
MapPut(m, key, value) ==
    [k \in DOMAIN m \cup {key} |-> IF k = key THEN value ELSE m[k]]

RECURSIVE GetVolumeParametersFrom(_, _, _, _, _, _, _)
(* k8s.go 224-243 *)
GetVolumeParametersFrom(ctx, objs, i, result, st, volumeOf, paramsOf) ==
    IF i > Len(objs) THEN [st |-> st, err |-> NoErr, result |-> result]
    ELSE IF objs[i].kind = PVCKind THEN
        LET s1 == Invoke(st, "GetVolumeForPersistentVolumeClaim", objs[i])
        IN  IF ~s1.ok
            THEN [st |-> s1, result |-> EmptyMap,
                  err |-> Err("FailedToGetVolumesParameters", ctx.App, "get volume", objs[i])]
            ELSE LET s2 == Invoke(s1, "GetPersistentVolumeClaimParams", objs[i])
                 IN  IF ~s2.ok
                     THEN [st |-> s2, result |-> EmptyMap,
                           err |-> Err("FailedToGetVolumesParameters", ctx.App,
                                       "get params", objs[i])]
                     ELSE GetVolumeParametersFrom(ctx, objs, i + 1,
                              MapPut(result, volumeOf[objs[i].name], paramsOf[objs[i].name]),
                              s2, volumeOf, paramsOf)
    ELSE GetVolumeParametersFrom(ctx, objs, i + 1, result, st, volumeOf, paramsOf)

(* k8s.go 221-246 *)
GetVolumeParameters(ctx, cl, failAt, volumeOf, paramsOf) ==
    LET r == GetVolumeParametersFrom(ctx, Storage(ctx.App, ctx.UID), 1, EmptyMap,
                                     Begin(cl, failAt), volumeOf, paramsOf)
    IN  [result |-> r.result, err |-> r.err, cluster |-> r.st.cluster,
         trace |-> r.st.trace]

RECURSIVE InspectVolumesFromClaimsOnly(_, _, _, _)
(* Mutant: only the claims are validated, as GetVolumes looks only at claims. *)
InspectVolumesFromClaimsOnly(ctx, objs, i, st) ==
    IF i > Len(objs) THEN [st |-> st, err |-> NoErr]
    ELSE IF objs[i].kind = PVCKind THEN
        LET s == Invoke(st, "ValidatePersistentVolumeClaim", objs[i])
        IN  IF ~s.ok
            THEN [st |-> s, err |-> Err("FailedToValidateStorage", ctx.App, "validate", objs[i])]
            ELSE InspectVolumesFromClaimsOnly(ctx, objs, i + 1, s)
    ELSE InspectVolumesFromClaimsOnly(ctx, objs, i + 1, st)

RECURSIVE InspectVolumesFrom(_, _, _, _)
(* k8s.go 249-272 *)
InspectVolumesFrom(ctx, objs, i, st) ==
    IF i > Len(objs) THEN [st |-> st, err |-> NoErr]
    ELSE IF objs[i].kind = SCKind THEN
        LET s == Invoke(st, "ValidateStorageClass", objs[i])
        IN  IF ~s.ok
            THEN [st |-> s, err |-> Err("FailedToValidateStorage", ctx.App, "validate", objs[i])]
            ELSE InspectVolumesFrom(ctx, objs, i + 1, s)
    ELSE IF objs[i].kind = PVCKind THEN
        LET s == Invoke(st, "ValidatePersistentVolumeClaim", objs[i])
        IN  IF ~s.ok
            THEN [st |-> s, err |-> Err("FailedToValidateStorage", ctx.App, "validate", objs[i])]
            ELSE InspectVolumesFrom(ctx, objs, i + 1, s)
    ELSE [st |-> Unsupported(st, objs[i]),
          err |-> Err("FailedToValidateStorage", ctx.App, "unsupported", objs[i])]

(* k8s.go 248-275 *)
InspectVolumes(ctx, cl, failAt) ==
    LET r == InspectVolumesFrom(ctx, Storage(ctx.App, ctx.UID), 1, Begin(cl, failAt))
    IN  [err |-> r.err, cluster |-> r.st.cluster, trace |-> r.st.trace]

RECURSIVE DeleteVolumesFromSkip(_, _, _, _)
(* Mutant: an object of another kind is passed over. *)
DeleteVolumesFromSkip(ctx, objs, i, st) ==
    IF i > Len(objs) THEN [st |-> st, err |-> NoErr]
    ELSE IF objs[i].kind = SCKind THEN
        LET s == Invoke(st, "DeleteStorageClass", objs[i])
        IN  IF ~s.ok
            THEN [st |-> s, err |-> Err("FailedToDestroyStorage", ctx.App, "destroy", objs[i])]
            ELSE DeleteVolumesFromSkip(ctx, objs, i + 1, s)
    ELSE IF objs[i].kind = PVCKind THEN
        LET s == Invoke(st, "DeletePersistentVolumeClaim", objs[i])
        IN  IF ~s.ok
            THEN [st |-> s, err |-> Err("FailedToDestroyStorage", ctx.App, "destroy", objs[i])]
            ELSE DeleteVolumesFromSkip(ctx, objs, i + 1, s)
    ELSE DeleteVolumesFromSkip(ctx, objs, i + 1, st)

RECURSIVE DeleteVolumesFrom(_, _, _, _)
(* k8s.go 278-301 *)
DeleteVolumesFrom(ctx, objs, i, st) ==
    IF i > Len(objs) THEN [st |-> st, err |-> NoErr]
    ELSE IF objs[i].kind = SCKind THEN
        LET s == Invoke(st, "DeleteStorageClass", objs[i])
        IN  IF ~s.ok
            THEN [st |-> s, err |-> Err("FailedToDestroyStorage", ctx.App, "destroy", objs[i])]
            ELSE DeleteVolumesFrom(ctx, objs, i + 1, s)
    ELSE IF objs[i].kind = PVCKind THEN
        LET s == Invoke(st, "DeletePersistentVolumeClaim", objs[i])
        IN  IF ~s.ok
            THEN [st |-> s, err |-> Err("FailedToDestroyStorage", ctx.App, "destroy", objs[i])]
            ELSE DeleteVolumesFrom(ctx, objs, i + 1, s)
    ELSE [st |-> Unsupported(st, objs[i]),
          err |-> Err("FailedToDestroyStorage", ctx.App, "unsupported", objs[i])]

(* k8s.go 277-304 *)
DeleteVolumes(ctx, cl, failAt) ==
    LET r == DeleteVolumesFrom(ctx, Storage(ctx.App, ctx.UID), 1, Begin(cl, failAt))
    IN  [err |-> r.err, cluster |-> r.st.cluster, trace |-> r.st.trace]

(* ------------------------------------------------------------------ *)
(* State                                                               *)
(* ------------------------------------------------------------------ *)

Idle == [op |-> "idle"]

(* The operations on a context, by the list they range over. *)
CoreOps == {"WaitForRunning", "Destroy", "WaitForDestroy"}
StorageOps == {"InspectVolumes", "DeleteVolumes"}
VolumeOps == {"GetVolumes", "GetVolumeParameters"}

RECURSIVE SeqsUpTo(_, _)
SeqsUpTo(S, n) ==
    IF n = 0 THEN {<<>>}
    ELSE LET shorter == SeqsUpTo(S, n - 1)
         IN  shorter \cup {Append(q, x) : q \in {p \in shorter : Len(p) = n - 1}, x \in S}

AppKeyLists == SeqsUpTo(AppKeySet, MaxKeys)

(* The contexts a scenario can hold: of the registered specs. *)
Contexts == [UID : InstanceIDs, App : {a \in Apps : IsRegistered(a)}]

RECURSIVE Sum(_, _)
Sum(f, n) == IF n = 0 THEN 0 ELSE f[n] + Sum(f, n - 1)

(* The objects a Schedule of these keys goes through at most. *)
ScheduleLength(instanceID, appKeys) ==
    LET specs == ResolveSpecs(appKeys, 1, <<>>).specs
    IN  Sum([k \in 1..Len(specs) |->
                Len(Storage(specs[k], instanceID)) + Len(Core(specs[k], instanceID))],
            Len(specs))

CoreLength(ctx) == Len(Core(ctx.App, ctx.UID))
StorageLength(ctx) == Len(Storage(ctx.App, ctx.UID))

(* The dispatches a successful Schedule made for its k-th context. *)
CreatesOf(r, k) ==
    LET n == [j \in 1..Len(r.contexts) |->
                 Len(Storage(r.contexts[j].App, r.contexts[j].UID))
                 + Len(Core(r.contexts[j].App, r.contexts[j].UID))]
    IN  SubSeq(r.trace, Sum(n, k - 1) + 1, Sum(n, k))

(* Volume identifiers and parameter maps the client can answer with. *)
Volumes == {"vol-a", "vol-b"}

(* The parameters of a claim: each claim of a template has its own. *)
ClaimParams(name) == [app |-> name[1], claim |-> name[4]]

ClaimNames(ctx) ==
    {Storage(ctx.App, ctx.UID)[i].name : i \in
        {j \in 1..Len(Storage(ctx.App, ctx.UID)) : Storage(ctx.App, ctx.UID)[j].kind = PVCKind}}

(* Every context a scenario could hold, of any app. *)
AllContexts == [UID : InstanceIDs, App : Apps]

(* No call is in progress. *)
NoCalls == [calls |-> <<>>]

(* The StopScheduler scenario is not run. *)
NoTest == [pc |-> "off"]

(* Nothing scheduled, nothing seen. *)
Fresh ==
    /\ cluster = {}
    /\ scheduled = {}
    /\ ret = Idle
    /\ life = [c \in AllContexts |-> "absent"]
    /\ running = NoCalls
    /\ nodes = <<>>
    /\ inits = 0

Init ==
    /\ registry \in Registries
    /\ Fresh
    /\ test = NoTest
    /\ items = <<>>

CallSchedule ==
    /\ ret = Idle
    /\ \E instanceID \in InstanceIDs, appKeys \in AppKeyLists :
       \E failAt \in 0..ScheduleLength(instanceID, appKeys) :
        LET r == Schedule(instanceID, appKeys, cluster, failAt)
        IN  /\ cluster' = r.cluster
            /\ scheduled' = scheduled \cup
                   {<<r.contexts[k], CreatesOf(r, k)>> : k \in 1..Len(r.contexts)}
            /\ UNCHANGED <<registry, aux>>
            /\ ret' = [op |-> "Schedule", instanceID |-> instanceID, appKeys |-> appKeys,
                       pre |-> cluster,
                       contexts |-> r.contexts, err |-> r.err, trace |-> r.trace]

(* The arguments and results of a call on a context. *)
Result(op, ctx, r) ==
    [op |-> op, ctx |-> ctx, pre |-> cluster, err |-> r.err, trace |-> r.trace]

CallWaitForRunning ==
    /\ ret = Idle
    /\ \E ctx \in Contexts :
       \E failAt \in 0..CoreLength(ctx) :
        LET r == WaitForRunning(ctx, cluster, failAt)
        IN  /\ cluster' = r.cluster
            /\ ret' = Result("WaitForRunning", ctx, r)
            /\ UNCHANGED <<registry, scheduled, aux>>

CallDestroy ==
    /\ ret = Idle
    /\ \E ctx \in Contexts :
       \E failAt \in 0..CoreLength(ctx) :
        LET r == Destroy(ctx, cluster, failAt)
        IN  /\ cluster' = r.cluster
            /\ ret' = Result("Destroy", ctx, r)
            /\ UNCHANGED <<registry, scheduled, aux>>

CallWaitForDestroy ==
    /\ ret = Idle
    /\ \E ctx \in Contexts :
       \E failAt \in 0..CoreLength(ctx) :
        LET r == WaitForDestroy(ctx, cluster, failAt)
        IN  /\ cluster' = r.cluster
            /\ ret' = Result("WaitForDestroy", ctx, r)
            /\ UNCHANGED <<registry, scheduled, aux>>

CallGetVolumes ==
    /\ ret = Idle
    /\ \E ctx \in Contexts :
       \E failAt \in 0..StorageLength(ctx), volumeOf \in [ClaimNames(ctx) -> Volumes] :
        LET r == GetVolumes(ctx, cluster, failAt, volumeOf)
        IN  /\ cluster' = r.cluster
            /\ ret' = Result("GetVolumes", ctx, r)
                          @@ [volumes |-> r.volumes, volumeOf |-> volumeOf]
            /\ UNCHANGED <<registry, scheduled, aux>>

CallGetVolumeParameters ==
    /\ ret = Idle
    /\ \E ctx \in Contexts :
       \E failAt \in 0..(2 * StorageLength(ctx)), volumeOf \in [ClaimNames(ctx) -> Volumes] :
        LET paramsOf == [n \in ClaimNames(ctx) |-> ClaimParams(n)]
            r == GetVolumeParameters(ctx, cluster, failAt, volumeOf, paramsOf)
        IN  /\ cluster' = r.cluster
            /\ ret' = Result("GetVolumeParameters", ctx, r)
                          @@ [result |-> r.result, volumeOf |-> volumeOf,
                              paramsOf |-> paramsOf]
            /\ UNCHANGED <<registry, scheduled, aux>>

CallInspectVolumes ==
    /\ ret = Idle
    /\ \E ctx \in Contexts :
       \E failAt \in 0..StorageLength(ctx) :
        LET r == InspectVolumes(ctx, cluster, failAt)
        IN  /\ cluster' = r.cluster
            /\ ret' = Result("InspectVolumes", ctx, r)
            /\ UNCHANGED <<registry, scheduled, aux>>

CallDeleteVolumes ==
    /\ ret = Idle
    /\ \E ctx \in Contexts :
       \E failAt \in 0..StorageLength(ctx) :
        LET r == DeleteVolumes(ctx, cluster, failAt)
        IN  /\ cluster' = r.cluster
            /\ ret' = Result("DeleteVolumes", ctx, r)
            /\ UNCHANGED <<registry, scheduled, aux>>

(* The scenario has looked at the result and goes on to its next call. *)
Return ==
    /\ ret # Idle
    /\ ret' = Idle
    /\ UNCHANGED <<registry, cluster, scheduled, aux>>

Next ==
    \/ CallSchedule
    \/ CallWaitForRunning
    \/ CallDestroy
    \/ CallWaitForDestroy
    \/ CallGetVolumes
    \/ CallGetVolumeParameters
    \/ CallInspectVolumes
    \/ CallDeleteVolumes
    \/ Return

Spec == Init /\ [][Next]_vars

(***************************************************************************)
(* The lifecycle of a context as a scenario sees it through the results of *)
(* its calls: Schedule, then Destroy, then WaitForDestroy, each returning  *)
(* nil, and DeleteVolumes at the end.  The driver stores none of it.       *)
(***************************************************************************)

(* Whether the call in ret sent anything to the client for context c. *)
Touches(c) ==
    \E i \in 1..Len(ret.trace) :
        /\ ret.trace[i].obj.name[1] = c.App
        /\ ret.trace[i].obj.name[2] = c.UID

(* Where context c stands once the scenario has seen the call in ret. *)
Phase(c) ==
    IF ret.op = "Schedule"
    THEN IF ret.err = NoErr /\ \E i \in 1..Len(ret.contexts) : ret.contexts[i] = c
         THEN "scheduled"
         ELSE IF Touches(c) THEN "absent" ELSE life[c]
    ELSE IF ret.ctx # c THEN life[c]
    ELSE IF ret.op = "DeleteVolumes" THEN "absent"
    ELSE IF ret.op = "Destroy" /\ ret.err = NoErr /\ life[c] = "scheduled"
         THEN "destroying"
    ELSE IF ret.op = "WaitForDestroy" /\ ret.err = NoErr /\ life[c] = "destroying"
         THEN "destroyed"
    ELSE life[c]

(* The scenario takes the result of its call and notes what it tells. *)
Observe ==
    /\ ret # Idle
    /\ life' = [c \in AllContexts |-> Phase(c)]
    /\ ret' = Idle
    /\ UNCHANGED <<registry, cluster, scheduled, running, test, driver>>

(* One app registered, as in the end-to-end scenario. *)
InitLifecycle ==
    /\ registry \in {<<"postgres">>, <<"echo">>}
    /\ Fresh
    /\ test = NoTest
    /\ items = <<>>

NextLifecycle ==
    \/ CallSchedule
    \/ CallWaitForRunning
    \/ CallDestroy
    \/ CallWaitForDestroy
    \/ CallGetVolumes
    \/ CallGetVolumeParameters
    \/ CallInspectVolumes
    \/ CallDeleteVolumes
    \/ Observe

SpecLifecycle == InitLifecycle /\ [][NextLifecycle]_vars

(***************************************************************************)
(* Two scenarios calling the driver at the same time, each on its own      *)
(* context.  A call is a loop of blocking client calls (k8s.go 81-124,     *)
(* 141-156, ...): the calls of the two loops interleave in any order, each *)
(* on the cluster as the other has left it.  What the client answers to a  *)
(* call is fixed when it starts (failAt, volumeOf).                        *)
(***************************************************************************)

(* The calls a scenario can make on its context. *)
CallsOn(ctx) ==
    LET Make(op, failAt, volumeOf, out) ==
            [op |-> op, ctx |-> ctx, failAt |-> failAt, volumeOf |-> volumeOf,
             i |-> 1, trace |-> <<>>, err |-> NoErr, out |-> out, done |-> FALSE]
        answers == [ClaimNames(ctx) -> Volumes]
    IN  {Make("Schedule", f, <<>>, <<>>) : f \in 0..ScheduleLength(ctx.UID, <<ctx.App>>)}
        \cup {Make(op, f, <<>>, <<>>) : op \in CoreOps, f \in 0..CoreLength(ctx)}
        \cup {Make(op, f, <<>>, <<>>) : op \in StorageOps, f \in 0..StorageLength(ctx)}
        \cup {Make("GetVolumes", f, v, <<>>) : f \in 0..StorageLength(ctx), v \in answers}
        \cup {Make("GetVolumeParameters", f, v, EmptyMap) :
                  f \in 0..(2 * StorageLength(ctx)), v \in answers}

(* The list the loop of call c ranges over. *)
CallObjects(c) ==
    IF c.op = "Schedule"
    THEN Storage(c.ctx.App, c.ctx.UID) \o Core(c.ctx.App, c.ctx.UID)
    ELSE IF c.op \in CoreOps THEN Core(c.ctx.App, c.ctx.UID)
    ELSE Storage(c.ctx.App, c.ctx.UID)

(* One turn of the loop of call c, on cluster cl: the loop of the handler, *)
(* cut after its c.i-th object.                                            *)
Turn(c, cl) ==
    LET st   == [cluster |-> cl, trace |-> c.trace, failAt |-> c.failAt, ok |-> TRUE]
        objs == SubSeq(CallObjects(c), 1, c.i)
        ns   == StorageLength(c.ctx)
        Plain(r) == [st |-> r.st, err |-> r.err, out |-> c.out]
    IN  CASE c.op = "Schedule" ->
                 IF c.i <= ns
                 THEN Plain(ScheduleStorage(c.ctx.App, objs, c.i, st))
                 ELSE Plain(ScheduleCore(c.ctx.App, SubSeq(objs, ns + 1, c.i), c.i - ns, st))
          [] c.op = "WaitForRunning" -> Plain(WaitForRunningFrom(c.ctx, objs, c.i, st))
          [] c.op = "Destroy" -> Plain(DestroyFrom(c.ctx, objs, c.i, st))
          [] c.op = "WaitForDestroy" -> Plain(WaitForDestroyFrom(c.ctx, objs, c.i, st))
          [] c.op = "InspectVolumes" -> Plain(InspectVolumesFrom(c.ctx, objs, c.i, st))
          [] c.op = "DeleteVolumes" -> Plain(DeleteVolumesFrom(c.ctx, objs, c.i, st))
          [] c.op = "GetVolumes" ->
                 LET r == GetVolumesFrom(c.ctx, objs, c.i, c.out, st, c.volumeOf)
                 IN  [st |-> r.st, err |-> r.err, out |-> r.volumes]
          [] c.op = "GetVolumeParameters" ->
                 LET r == GetVolumeParametersFrom(c.ctx, objs, c.i, c.out, st, c.volumeOf,
                              [n \in ClaimNames(c.ctx) |-> ClaimParams(n)])
                 IN  [st |-> r.st, err |-> r.err, out |-> r.result]

(* Call c after that turn: it returns at an error and after the last object; *)
(* a Schedule that went through returns the context (k8s.go 126-134).      *)
AfterTurn(c, r) ==
    LET last == c.i = Len(CallObjects(c))
    IN  [c EXCEPT !.i = @ + 1,
                  !.trace = r.st.trace,
                  !.err = r.err,
                  !.done = (r.err # NoErr) \/ last,
                  !.out = IF c.op = "Schedule"
                          THEN IF r.err = NoErr /\ last
                               THEN <<NewContext(c.ctx.UID, c.ctx.App)>> ELSE <<>>
                          ELSE r.out]

(* Two scenarios start a call each, on contexts of different specs. *)
Launch ==
    /\ ret = Idle
    /\ running = NoCalls
    /\ \E k1, k2 \in 1..Len(registry) :
         /\ k1 < k2
         /\ \E c1 \in CallsOn(NewContext("run-1", registry[k1])),
               c2 \in CallsOn(NewContext("run-1", registry[k2])) :
                running' = [calls |-> <<c1, c2>>, start |-> cluster, overlapped |-> FALSE]
    /\ UNCHANGED <<registry, cluster, scheduled, ret, life, test, driver>>

(* The call of scenario t makes its next client call. *)
StepCall(t) ==
    /\ running # NoCalls
    /\ ~running.calls[t].done
    /\ LET c     == running.calls[t]
           other == running.calls[3 - t]
           r     == Turn(c, cluster)
       IN  /\ cluster' = r.st.cluster
           /\ running' = [running EXCEPT
                             !.calls[t] = AfterTurn(c, r),
                             !.overlapped = @ \/ (other.i > 1 /\ ~other.done)]
    /\ UNCHANGED <<registry, scheduled, ret, life, test, driver>>

(* Both calls have returned. *)
Join ==
    /\ running # NoCalls
    /\ running.calls[1].done /\ running.calls[2].done
    /\ running' = NoCalls
    /\ UNCHANGED <<registry, cluster, scheduled, ret, life, test, driver>>

InitConcurrent ==
    /\ registry = <<"postgres", "echo">>
    /\ Fresh
    /\ test = NoTest
    /\ items = <<>>

NextConcurrent ==
    \/ Launch
    \/ \E t \in {1, 2} : StepCall(t)
    \/ Join

SpecConcurrent == InitConcurrent /\ [][NextConcurrent]_vars

(***************************************************************************)
(* The StopScheduler scenario (sched_test.go 29-67): schedule the apps and *)
(* validate them; then, context by context, stop the scheduling service on *)
(* a node of the app, wait, validate the context, start the service again; *)
(* at the end validate all apps.  An expectation that fails ends the       *)
(* scenario there.  test.stopped is the cluster's side: the nodes whose    *)
(* scheduling service is down.                                             *)
(***************************************************************************)

(* The nodes of the cluster. *)
NodeNames == {"node-1", "node-2", "node-3"}

(* The scenario goes on to pc, or ends at a failed expectation. *)
Expect(ok, pc) == IF ok THEN pc ELSE "failed"

(* A step of the scenario on its current context, as it is called. *)
Logged(step) ==
    Append(test.log, [step |-> step, ctx |-> test.contexts[test.k], node |-> test.appNode])

(* sched_test.go 31-33: ScheduleApps, every registered spec under one instance id. *)
TestScheduleApps ==
    /\ test.pc = "schedule"
    /\ \E failAt \in 0..ScheduleLength("run-1", <<>>) :
        LET r == Schedule("run-1", <<>>, cluster, failAt)
        IN  /\ cluster' = r.cluster
            /\ test' = [test EXCEPT !.contexts = r.contexts,
                                    !.pc = Expect(r.err = NoErr, "validateApps")]
    /\ UNCHANGED <<registry, scheduled, ret, life, running, driver>>

(* ValidateContext of every context in turn; bad is the first that fails (0: none). *)
ValidateApps(pc) ==
    \E bad \in 0..Len(test.contexts) :
        test' = [test EXCEPT !.pc = Expect(bad = 0, pc)]

(* sched_test.go 34 *)
TestValidateApps ==
    /\ test.pc = "validateApps"
    /\ ValidateApps(IF Len(test.contexts) = 0 THEN "final" ELSE "getNodes")
    /\ UNCHANGED <<registry, cluster, scheduled, ret, life, running, driver>>

(* sched_test.go 40-46: the nodes of the app, and one of them at random. *)
TestGetNodesForApp ==
    /\ test.pc = "getNodes"
    /\ \E ok \in BOOLEAN, appNodes \in SUBSET NodeNames :
         IF ok /\ appNodes # {}
         THEN \E n \in appNodes : test' = [test EXCEPT !.appNode = n, !.pc = "stop"]
         ELSE test' = [test EXCEPT !.pc = "failed"]
    /\ UNCHANGED <<registry, cluster, scheduled, ret, life, running, driver>>

(* sched_test.go 48-49: a call that reports an error may have stopped the  *)
(* service all the same.                                                   *)
TestStopSchedOnNode ==
    /\ test.pc = "stop"
    /\ \E ok \in BOOLEAN, down \in BOOLEAN :
         test' = [test EXCEPT !.stopped = IF ok \/ down THEN @ \cup {test.appNode} ELSE @,
                                 !.log = Logged("stop"),
                                 !.pc = Expect(ok, "wait")]
    /\ UNCHANGED <<registry, cluster, scheduled, ret, life, running, driver>>

(* sched_test.go 50-52: time.Sleep *)
TestWait ==
    /\ test.pc = "wait"
    /\ test' = [test EXCEPT !.log = Logged("wait"), !.pc = "validate"]
    /\ UNCHANGED <<registry, cluster, scheduled, ret, life, running, driver>>

(* sched_test.go 54-56: ValidateContext(ctx) *)
TestValidateContext ==
    /\ test.pc = "validate"
    /\ \E failAt \in 0..CoreLength(test.contexts[test.k]) :
        LET r == WaitForRunning(test.contexts[test.k], cluster, failAt)
        IN  test' = [test EXCEPT !.log = Logged("validate"),
                                 !.pc = Expect(r.err = NoErr, "start")]
    /\ UNCHANGED <<registry, cluster, scheduled, ret, life, running, driver>>

(* Mutant: the node to start is picked again instead of being the one stopped. *)
TestStartSchedOnAnyNode ==
    /\ test.pc = "start"
    /\ \E ok \in BOOLEAN, n \in NodeNames :
         test' = [test EXCEPT !.stopped = IF ok THEN @ \ {n} ELSE @,
                                 !.log = Logged("start"),
                                 !.k = @ + 1,
                                 !.pc = Expect(ok, IF test.k = Len(test.contexts)
                                                   THEN "final" ELSE "getNodes")]
    /\ UNCHANGED <<registry, cluster, scheduled, ret, life, running, driver>>

(* sched_test.go 59-62, and the loop going to its next context: a call     *)
(* that reports an error may have started the service all the same.        *)
TestStartSchedOnNode ==
    /\ test.pc = "start"
    /\ \E ok \in BOOLEAN, up \in BOOLEAN :
         test' = [test EXCEPT !.stopped = IF ok \/ up THEN @ \ {test.appNode} ELSE @,
                                 !.log = Logged("start"),
                                 !.k = @ + 1,
                                 !.pc = Expect(ok, IF test.k = Len(test.contexts)
                                                   THEN "final" ELSE "getNodes")]
    /\ UNCHANGED <<registry, cluster, scheduled, ret, life, running, driver>>

(* sched_test.go 66 *)
TestFinalValidateApps ==
    /\ test.pc = "final"
    /\ ValidateApps("done")
    /\ UNCHANGED <<registry, cluster, scheduled, ret, life, running, driver>>

(* sched_test.go 29: the scenario starts on a cluster with all services up. *)
InitStopScheduler ==
    /\ registry \in Registries
    /\ Fresh
    /\ test = [pc |-> "schedule", contexts |-> <<>>, k |-> 1, appNode |-> "none",
               stopped |-> {}, log |-> <<>>]
    /\ items = <<>>

NextStopScheduler ==
    \/ TestScheduleApps
    \/ TestValidateApps
    \/ TestGetNodesForApp
    \/ TestStopSchedOnNode
    \/ TestWait
    \/ TestValidateContext
    \/ TestStartSchedOnNode
    \/ TestFinalValidateApps

SpecStopScheduler == InitStopScheduler /\ [][NextStopScheduler]_vars

(***************************************************************************)
(* The driver with its node snapshot: Init and GetNodes next to the        *)
(* operations on contexts, on a cluster that lists the same nodes all      *)
(* along.                                                                  *)
(***************************************************************************)

MaxNodes == 2
MaxInits == 2

(* The nodes a cluster can have. *)
NodeObjects ==
    {[Name |-> "node-1", master |-> TRUE,
      Addresses |-> <<[Type |-> "Hostname", Address |-> "node-1"],
                      [Type |-> "InternalIP", Address |-> "10.0.0.1"]>>],
     [Name |-> "node-2", master |-> FALSE,
      Addresses |-> <<[Type |-> "InternalIP", Address |-> "10.0.0.2"],
                      [Type |-> "ExternalIP", Address |-> "192.0.2.2"]>>],
     [Name |-> "node-3", master |-> FALSE,
      Addresses |-> <<[Type |-> "Hostname", Address |-> "node-3"]>>]}

(* What the cluster can list: nodes of different names. *)
NodeLists ==
    {l \in SeqsUpTo(NodeObjects, MaxNodes) :
        \A i, j \in 1..Len(l) : i # j => l[i].Name # l[j].Name}

(* The errors k8sutils.GetNodes() can return. *)
ListErrors == {[kind |-> "Unauthorized"], [kind |-> "Timeout"]}

CallInit ==
    /\ ret = Idle
    /\ inits < MaxInits
    /\ \E e \in {NoErr} \cup ListErrors :
        LET listing == [items |-> IF e = NoErr THEN items ELSE <<>>, err |-> e]
            r == K8sInit(nodes, listing)
        IN  /\ nodes' = r.nodes
            /\ inits' = IF r.err = NoErr THEN inits + 1 ELSE inits
            /\ ret' = [op |-> "Init", pre |-> cluster, preNodes |-> nodes,
                       listErr |-> e, err |-> r.err, trace |-> <<>>]
    /\ UNCHANGED <<registry, cluster, scheduled, life, running, test, items>>

CallGetNodes ==
    /\ ret = Idle
    /\ ret' = [op |-> "GetNodes", pre |-> cluster, nodes |-> GetNodes(nodes),
               err |-> NoErr, trace |-> <<>>]
    /\ UNCHANGED <<registry, cluster, scheduled, aux>>

InitSnapshot ==
    /\ registry = <<"echo">>
    /\ Fresh
    /\ test = NoTest
    /\ items \in NodeLists

NextSnapshot ==
    \/ CallInit
    \/ CallGetNodes
    \/ CallSchedule
    \/ CallWaitForRunning
    \/ CallDestroy
    \/ CallWaitForDestroy
    \/ CallGetVolumes
    \/ CallGetVolumeParameters
    \/ CallInspectVolumes
    \/ CallDeleteVolumes
    \/ Return

SpecSnapshot == InitSnapshot /\ [][NextSnapshot]_vars

(* ------------------------------------------------------------------ *)
(* Properties                                                          *)
(* ------------------------------------------------------------------ *)

IsCall(op) == ret # Idle /\ ret.op = op

Failed == ret.err # NoErr

(* The objects of a trace, in order. *)
Objs(trace) == [i \in 1..Len(trace) |-> trace[i].obj]

IsPrefix(p, q) == Len(p) <= Len(q) /\ SubSeq(q, 1, Len(p)) = p

(* The specs a Schedule of appKeys is to go through (all keys registered). *)
ExpectedSpecs(appKeys) == IF appKeys = <<>> THEN registry ELSE appKeys

KeysKnown(appKeys) == \A i \in 1..Len(appKeys) : IsRegistered(appKeys[i])

RECURSIVE ExpectedOrder(_, _)
(* Storage then Core of each spec, spec after spec. *)
ExpectedOrder(specs, instanceID) ==
    IF specs = <<>> THEN <<>>
    ELSE Storage(Head(specs), instanceID) \o Core(Head(specs), instanceID)
         \o ExpectedOrder(Tail(specs), instanceID)

CreateFnOf(obj) ==
    CASE obj.kind = SCKind -> "CreateStorageClass"
      [] obj.kind = PVCKind -> "CreatePersistentVolumeClaim"
      [] obj.kind = DeploymentKind -> "CreateDeployment"
      [] OTHER -> "none"

(* C1: within one Schedule call the create calls follow the resolved spec  *)
(* list: spec after spec, and within a spec every Storage object in list   *)
(* order before any Core object, none left out on the way.                 *)
C1_ScheduleOrder ==
    (IsCall("Schedule") /\ KeysKnown(ret.appKeys)) =>
        /\ IsPrefix(Objs(ret.trace),
                    ExpectedOrder(ExpectedSpecs(ret.appKeys), ret.instanceID))
        /\ \A i \in 1..Len(ret.trace) :
              ret.trace[i].fn \in CreateFns => ret.trace[i].fn = CreateFnOf(ret.trace[i].obj)

(* A Schedule that went through two different specs, storage and core. *)
C1_Witness ==
    /\ IsCall("Schedule")
    /\ ret.appKeys = <<"echo", "postgres">>
    /\ Len(ret.trace) = 7
    /\ ~Failed


(* How many of the specs a Schedule went through had every object created. *)
FullyMaterialized ==
    LET specs == ExpectedSpecs(ret.appKeys)
        size  == [k \in 1..Len(specs) |->
                     Len(Storage(specs[k], ret.instanceID)) + Len(Core(specs[k], ret.instanceID))]
        made  == Cardinality({i \in 1..Len(ret.trace) : ret.trace[i].ok})
    IN  Cardinality({k \in 1..Len(specs) : Sum(size, k) <= made})

MaterializeFailed == IsCall("Schedule") /\ ret.err.kind = "FailedToScheduleApp"

C3_NoRollBack ==
    IsCall("Schedule") =>
        /\ \A i \in 1..Len(ret.trace) : ret.trace[i].fn \notin DeleteFns
        /\ ret.pre \subseteq cluster
        /\ \A i \in 1..Len(ret.trace) :
              (ret.trace[i].ok /\ ret.trace[i].fn \in CreateFns)
                  => ret.trace[i].obj.name \in cluster

(* A Schedule that failed in its second spec after creating part of it. *)
C3_Witness ==
    /\ MaterializeFailed
    /\ ret.appKeys = <<"postgres", "echo">>
    /\ ret.pre = {}
    /\ Len(ret.trace) = 7
    /\ Cardinality(cluster) = 6

(* C4: when every create succeeds Schedule returns one context per         *)
(* resolved spec, in the resolved order (AppKeys order, or registration    *)
(* order when AppKeys is empty), with UID the instanceID and App the spec. *)
C4_ContextsOnSuccess ==
    (IsCall("Schedule") /\ ~Failed) =>
        ret.contexts = [k \in 1..Len(ExpectedSpecs(ret.appKeys)) |->
                           [UID |-> ret.instanceID, App |-> ExpectedSpecs(ret.appKeys)[k]]]

(* A successful Schedule of two keys given against registration order. *)
C4_Witness ==
    /\ IsCall("Schedule")
    /\ ~Failed
    /\ ret.appKeys = <<"echo", "postgres">>
    /\ Len(ret.contexts) = 2

(* C5: every operation is fail-fast: only the last dispatch of a call can  *)
(* have failed, the call returns an error exactly when one did, and the    *)
(* error names the spec and the object of that dispatch.                   *)
C5_FailFast ==
    (ret # Idle /\ ret.err.kind # "UnknownAppKind") =>
        LET n == Len(ret.trace)
        IN  /\ \A i \in 1..n : (i < n) => ret.trace[i].ok
            /\ Failed <=> (n > 0 /\ ~ret.trace[n].ok)
            /\ Failed => /\ ret.err.App = ret.trace[n].obj.name[1]
                         /\ ret.err.object = ret.trace[n].obj.name
            /\ (Failed /\ ret.op # "Schedule") => ret.err.App = ret.ctx.App

(* A WaitForDestroy whose first validation failed with two more to go. *)
C5_Witness ==
    /\ IsCall("WaitForDestroy")
    /\ ret.ctx.App = "postgres"
    /\ Failed
    /\ Len(ret.trace) = 1


(* The objects the call in ret has to go through, in order. *)
OpObjects ==
    IF ret.op = "Schedule"
    THEN ExpectedOrder(ExpectedSpecs(ret.appKeys), ret.instanceID)
    ELSE IF ret.op \in CoreOps THEN Core(ret.ctx.App, ret.ctx.UID)
    ELSE Storage(ret.ctx.App, ret.ctx.UID)

(* The kinds the operation has a case for, in the list the object is of. *)
Handles(op, obj) ==
    IF op \in VolumeOps THEN obj.kind = PVCKind
    ELSE IF obj.name[3] = "core" THEN obj.kind = DeploymentKind
    ELSE obj.kind \in {SCKind, PVCKind}

(* The error each operation reports. *)
OpError(op) ==
    CASE op = "Schedule" -> "FailedToScheduleApp"
      [] op = "WaitForRunning" -> "FailedToValidateApp"
      [] op = "Destroy" -> "FailedToDestroyApp"
      [] op = "WaitForDestroy" -> "FailedToValidateAppDestroy"
      [] op = "GetVolumes" -> "FailedToGetVolumesForApp"
      [] op = "GetVolumeParameters" -> "FailedToGetVolumesParameters"
      [] op = "InspectVolumes" -> "FailedToValidateStorage"
      [] op = "DeleteVolumes" -> "FailedToDestroyStorage"

(* C6 as stated: an object of a kind the operation has no case for always  *)
(* makes it fail with UnsupportedResourceKind and is never passed over.    *)
C6_UnsupportedResourceKind ==
    (ret # Idle /\ ret.err.kind # "UnknownAppKind") =>
        /\ (\E i \in 1..Len(ret.trace) : ret.trace[i].fn = "unsupported")
              => ret.err.kind = "UnsupportedResourceKind"
        /\ ~Failed => \A i \in 1..Len(OpObjects) : Handles(ret.op, OpObjects[i])

(* C6 amended: in Schedule, WaitForRunning, Destroy, WaitForDestroy,       *)
(* InspectVolumes and DeleteVolumes an object of a kind the list has no    *)
(* case for is never passed over: the call sends nothing to the client for *)
(* it, stops there and fails with the operation's own error               *)
(* (FailedToScheduleApp, FailedToDestroyApp, ...) for the owning spec;     *)
(* GetVolumes and GetVolumeParameters pass over every storage object that  *)
(* is no PersistentVolumeClaim without an error.                           *)
C6_UnsupportedIsOperationError ==
    (ret # Idle /\ ret.err.kind # "UnknownAppKind") =>
        /\ \A i \in 1..Len(ret.trace) :
              /\ ret.trace[i].fn # "unsupported" => Handles(ret.op, ret.trace[i].obj)
              /\ ret.trace[i].fn = "unsupported" =>
                    /\ ret.op \notin VolumeOps
                    /\ ~Handles(ret.op, ret.trace[i].obj)
                    /\ i = Len(ret.trace)
                    /\ ret.err = [kind |-> OpError(ret.op),
                                  App |-> ret.trace[i].obj.name[1],
                                  cause |-> "unsupported",
                                  object |-> ret.trace[i].obj.name]
        /\ (~Failed /\ ret.op \notin VolumeOps) =>
              \A i \in 1..Len(OpObjects) : Handles(ret.op, OpObjects[i])
        /\ (ret.op \in VolumeOps /\ \A i \in 1..Len(ret.trace) : ret.trace[i].ok) => ~Failed

(* A DeleteVolumes that came upon a Service after deleting a claim. *)
C6_Witness ==
    /\ IsCall("DeleteVolumes")
    /\ ret.ctx.App = "legacy"
    /\ Len(ret.trace) = 2
    /\ ret.trace[2].fn = "unsupported"
    /\ ret.err.kind = "FailedToDestroyStorage"

(* C7: a Destroy that fails at the j-th core object reports                *)
(* FailedToDestroyApp for the context's spec, has deleted the core objects *)
(* before it in list order, and has sent nothing for the later ones, which *)
(* are as they were; the j-th was tried once.                              *)
C7_DestroyShortCircuit ==
    (IsCall("Destroy") /\ Failed) =>
        LET core == Core(ret.ctx.App, ret.ctx.UID)
            j    == CHOOSE i \in 1..Len(core) : core[i].name = ret.err.object
        IN  /\ ret.err.kind = "FailedToDestroyApp"
            /\ ret.err.App = ret.ctx.App
            /\ \E i \in 1..Len(core) : core[i].name = ret.err.object
            /\ Len(ret.trace) = j
            /\ \A i \in 1..(j - 1) :
                  /\ ret.trace[i] = [fn |-> "DeleteDeployment", obj |-> core[i], ok |-> TRUE]
                  /\ core[i].name \notin cluster
            /\ ret.trace[j].obj = core[j] /\ ~ret.trace[j].ok
            /\ cluster = ret.pre \ {core[i].name : i \in 1..(j - 1)}

(* A Destroy of three running deployments that failed at the second. *)
C7_Witness ==
    /\ IsCall("Destroy")
    /\ Failed
    /\ ret.ctx.App = "postgres"
    /\ {<<"postgres", "run-1", "core", i>> : i \in 1..3} \subseteq ret.pre
    /\ ret.err.object = <<"postgres", "run-1", "core", 2>>

IsCoreCreate(c) == c.fn = "CreateDeployment"
IsStorageCreate(c) == c.fn \in {"CreateStorageClass", "CreatePersistentVolumeClaim"}

DeleteFnOf(obj) ==
    IF obj.kind = SCKind THEN "DeleteStorageClass" ELSE "DeletePersistentVolumeClaim"

(* C8: for a context a successful Schedule returned, a successful Destroy  *)
(* deletes, and a successful WaitForDestroy validates as deleted, exactly  *)
(* the deployments Schedule created for it, in the same order; a           *)
(* successful DeleteVolumes deletes exactly the storage objects it created.*)
C8_SameResources ==
    \A e \in scheduled :
        (ret # Idle /\ ret.op \in {"Destroy", "WaitForDestroy", "DeleteVolumes"}
            /\ ~Failed /\ ret.ctx = e[1]) =>
            /\ ret.op = "Destroy" =>
                  /\ Objs(ret.trace) = Objs(SelectSeq(e[2], IsCoreCreate))
                  /\ \A i \in 1..Len(ret.trace) : ret.trace[i].fn = "DeleteDeployment"
            /\ ret.op = "WaitForDestroy" =>
                  /\ Objs(ret.trace) = Objs(SelectSeq(e[2], IsCoreCreate))
                  /\ \A i \in 1..Len(ret.trace) :
                        ret.trace[i].fn = "ValidateTerminatedDeployment"
            /\ ret.op = "DeleteVolumes" =>
                  /\ Objs(ret.trace) = Objs(SelectSeq(e[2], IsStorageCreate))
                  /\ \A i \in 1..Len(ret.trace) :
                        ret.trace[i].fn = DeleteFnOf(ret.trace[i].obj)

(* A successful Destroy of a postgres context that Schedule returned. *)
C8_Witness ==
    /\ IsCall("Destroy")
    /\ ~Failed
    /\ ret.ctx.App = "postgres"
    /\ \E e \in scheduled : e[1] = ret.ctx /\ Len(e[2]) = 5

(* C9: WaitForRunning returns nil exactly when every core object is a      *)
(* Deployment and every validation succeeded; otherwise it returns         *)
(* FailedToValidateApp for the context's spec at the first core object     *)
(* that fails, and validates none after it.                                *)
C9_WaitForRunning ==
    IsCall("WaitForRunning") =>
        LET core == Core(ret.ctx.App, ret.ctx.UID)
            n    == Len(ret.trace)
        IN  /\ ~Failed <=>
                  /\ \A i \in 1..Len(core) : core[i].kind = DeploymentKind
                  /\ ret.trace = [i \in 1..Len(core) |->
                        [fn |-> "ValidateDeployement", obj |-> core[i], ok |-> TRUE]]
            /\ Failed =>
                  /\ ret.err.kind = "FailedToValidateApp"
                  /\ ret.err.App = ret.ctx.App
                  /\ n \in 1..Len(core)
                  /\ ret.err.object = core[n].name
                  /\ \A i \in 1..(n - 1) :
                        ret.trace[i] = [fn |-> "ValidateDeployement", obj |-> core[i],
                                        ok |-> TRUE]
                  /\ ret.trace[n].obj = core[n] /\ ~ret.trace[n].ok
            /\ cluster = ret.pre

(* A WaitForRunning that failed at the second of three deployments. *)
C9_Witness ==
    /\ IsCall("WaitForRunning")
    /\ Failed
    /\ ret.ctx.App = "postgres"
    /\ Len(ret.trace) = 2

IsClaim(obj) == obj.kind = PVCKind

(* C10: GetVolumes returns the volume of every PersistentVolumeClaim of    *)
(* the storage list, one per claim in list order; when a lookup fails it   *)
(* returns FailedToGetVolumesForApp for the context's spec and no volumes. *)
C10_GetVolumes ==
    IsCall("GetVolumes") =>
        LET claims == SelectSeq(Storage(ret.ctx.App, ret.ctx.UID), IsClaim)
        IN  /\ ~Failed =>
                  ret.volumes = [i \in 1..Len(claims) |-> ret.volumeOf[claims[i].name]]
            /\ Failed =>
                  /\ ret.err.kind = "FailedToGetVolumesForApp"
                  /\ ret.err.App = ret.ctx.App
                  /\ ret.volumes = <<>>
                  /\ ret.trace[Len(ret.trace)].fn = "GetVolumeForPersistentVolumeClaim"
                  /\ ~ret.trace[Len(ret.trace)].ok

(* A GetVolumes of two claims bound to different volumes. *)
C10_Witness ==
    /\ IsCall("GetVolumes")
    /\ ~Failed
    /\ ret.ctx.App = "legacy"
    /\ ret.volumes = <<"vol-b", "vol-a">>

(* The context the call in ret is about has been scheduled, destroyed and  *)
(* seen destroyed, each with a nil error, and its volumes not yet deleted. *)
OnDestroyed == life[ret.ctx] = "destroyed"

(* C11: once Schedule, Destroy and WaitForDestroy have all succeeded for a *)
(* context, a later GetVolumes on it does not return a volume list with a  *)
(* nil error.                                                              *)
C11_GetVolumesAfterDestroyFails ==
    (IsCall("GetVolumes") /\ OnDestroyed) => Failed

ValidateFnOf(obj) ==
    IF obj.kind = SCKind THEN "ValidateStorageClass" ELSE "ValidatePersistentVolumeClaim"

(* The client call DeleteVolumes or InspectVolumes makes for a storage object. *)
StorageFnOf(op, obj) == IF op = "DeleteVolumes" THEN DeleteFnOf(obj) ELSE ValidateFnOf(obj)

(* C12: DeleteVolumes sends a delete, and InspectVolumes a validation, for *)
(* every storage object, StorageClass and PersistentVolumeClaim alike, in  *)
(* list order, and returns nil only if all of them succeeded.  At the      *)
(* first storage object that fails it returns FailedToDestroyStorage       *)
(* (FailedToValidateStorage) for the context's spec; the objects before it *)
(* are deleted (validated), nothing is sent for the later ones and they    *)
(* are left as they were.                                                  *)
C12_StorageShortCircuit ==
    (ret # Idle /\ ret.op \in StorageOps) =>
        LET sto == Storage(ret.ctx.App, ret.ctx.UID)
            n   == Len(ret.trace)
            Gone(k) == IF ret.op = "DeleteVolumes"
                       THEN {sto[i].name : i \in 1..k} ELSE {}
        IN  /\ ~Failed =>
                  /\ ret.trace = [i \in 1..Len(sto) |->
                        [fn |-> StorageFnOf(ret.op, sto[i]), obj |-> sto[i], ok |-> TRUE]]
                  /\ \A i \in 1..Len(sto) : sto[i].kind \in {SCKind, PVCKind}
                  /\ cluster = ret.pre \ Gone(Len(sto))
            /\ Failed =>
                  /\ ret.err.kind = OpError(ret.op)
                  /\ ret.err.App = ret.ctx.App
                  /\ n \in 1..Len(sto)
                  /\ ret.err.object = sto[n].name
                  /\ \A i \in 1..(n - 1) :
                        ret.trace[i] = [fn |-> StorageFnOf(ret.op, sto[i]),
                                        obj |-> sto[i], ok |-> TRUE]
                  /\ ret.trace[n].obj = sto[n] /\ ~ret.trace[n].ok
                  /\ cluster = ret.pre \ Gone(n - 1)

(* A DeleteVolumes that deleted the storage class and failed at the claim, *)
(* which is still there.                                                   *)
C12_Witness ==
    /\ IsCall("DeleteVolumes")
    /\ Failed
    /\ ret.ctx.App = "postgres"
    /\ {<<"postgres", "run-1", "storage", i>> : i \in 1..2} \subseteq ret.pre
    /\ ret.err.object = <<"postgres", "run-1", "storage", 2>>
    /\ <<"postgres", "run-1", "storage", 1>> \notin cluster
    /\ <<"postgres", "run-1", "storage", 2>> \in cluster

(* Call c made alone, from start to return, on cluster cl. *)
Alone(c, cl) ==
    LET Plain(r) == [err |-> r.err, cluster |-> r.cluster, trace |-> r.trace, out |-> <<>>]
    IN  CASE c.op = "Schedule" ->
                 LET r == Schedule(c.ctx.UID, <<c.ctx.App>>, cl, c.failAt)
                 IN  [Plain(r) EXCEPT !.out = r.contexts]
          [] c.op = "WaitForRunning" -> Plain(WaitForRunning(c.ctx, cl, c.failAt))
          [] c.op = "Destroy" -> Plain(Destroy(c.ctx, cl, c.failAt))
          [] c.op = "WaitForDestroy" -> Plain(WaitForDestroy(c.ctx, cl, c.failAt))
          [] c.op = "InspectVolumes" -> Plain(InspectVolumes(c.ctx, cl, c.failAt))
          [] c.op = "DeleteVolumes" -> Plain(DeleteVolumes(c.ctx, cl, c.failAt))
          [] c.op = "GetVolumes" ->
                 LET r == GetVolumes(c.ctx, cl, c.failAt, c.volumeOf)
                 IN  [Plain(r) EXCEPT !.out = r.volumes]
          [] c.op = "GetVolumeParameters" ->
                 LET r == GetVolumeParameters(c.ctx, cl, c.failAt, c.volumeOf,
                              [n \in ClaimNames(c.ctx) |-> ClaimParams(n)])
                 IN  [Plain(r) EXCEPT !.out = r.result]

(* The interleaved call c returned what the call made alone returned, and  *)
(* sent the same client calls for the same objects.                        *)
SameAs(c, a) == c.err = a.err /\ c.out = a.out /\ c.trace = a.trace

BothReturned ==
    running # NoCalls /\ running.calls[1].done /\ running.calls[2].done

(* C13: two calls made at the same time on contexts with disjoint          *)
(* resources do not interfere: however their client calls interleave, each *)
(* returns the result and touches the resources, all of its own context,   *)
(* that it does when the two run one after the other, in either order, and *)
(* the cluster ends as it does then.                                       *)
C13_NoInterference ==
    BothReturned =>
        LET c1 == running.calls[1]
            c2 == running.calls[2]
            a1 == Alone(c1, running.start)
            a2 == Alone(c2, a1.cluster)
            b2 == Alone(c2, running.start)
            b1 == Alone(c1, b2.cluster)
        IN  /\ SameAs(c1, a1) /\ SameAs(c2, a2)
            /\ SameAs(c1, b1) /\ SameAs(c2, b2)
            /\ cluster = a2.cluster
            /\ cluster = b1.cluster
            /\ \A t \in {1, 2} : \A i \in 1..Len(running.calls[t].trace) :
                  LET name == running.calls[t].trace[i].obj.name
                  IN  name[1] = running.calls[t].ctx.App /\ name[2] = running.calls[t].ctx.UID

(* A Destroy of the three postgres deployments and a Schedule of echo,     *)
(* each of which made client calls while the other was under way.          *)
C13_Witness ==
    /\ BothReturned
    /\ running.overlapped
    /\ running.calls[1].op = "Destroy" /\ running.calls[1].err = NoErr
    /\ {<<"postgres", "run-1", "core", i>> : i \in 1..3} \subseteq running.start
    /\ running.calls[2].op = "Schedule" /\ running.calls[2].err = NoErr
    /\ <<"echo", "run-1", "core", 1>> \notin running.start
    /\ <<"echo", "run-1", "core", 1>> \in cluster

(* The steps the scenario takes for each context (sched_test.go 47-62). *)
StepsPerContext == <<"stop", "wait", "validate", "start">>

(* C14: the StopScheduler scenario takes its contexts one at a time, in    *)
(* order, and for each one stops the scheduling service on a node, waits,  *)
(* validates the context and starts the service on that same node, in this *)
(* order.  So at most one node is stopped at any moment: exactly the       *)
(* chosen one between the stop and the start, and none when the final      *)
(* validation of all apps is made and when the scenario has completed      *)
(* without a failed expectation.                                           *)
C14_StopSchedulerOrder ==
    LET log == test.log
        first(i) == 4 * ((i - 1) \div 4) + 1
    IN  /\ Cardinality(test.stopped) <= 1
        /\ \A i \in 1..Len(log) :
              /\ log[i].step = StepsPerContext[((i - 1) % 4) + 1]
              /\ ((i - 1) \div 4) + 1 <= Len(test.contexts)
              /\ log[i].ctx = test.contexts[((i - 1) \div 4) + 1]
              /\ log[i].node = log[first(i)].node
        /\ test.pc \in {"wait", "validate", "start"} => test.stopped = {test.appNode}
        /\ test.pc \in {"getNodes", "stop"} => test.stopped = {}
        /\ test.pc \in {"final", "done"} =>
              /\ test.stopped = {}
              /\ Len(log) = 4 * Len(test.contexts)

(* The scenario completed for two contexts, having stopped and started a   *)
(* different node for each.                                                *)
C14_Witness ==
    /\ test.pc = "done"
    /\ Len(test.contexts) = 2
    /\ Len(test.log) = 8
    /\ test.log[1].node # test.log[5].node

(* C15: when the listing of the nodes fails, Init returns the client's    *)
(* error itself, not wrapped, and the snapshot is exactly what it was      *)
(* before the call: nothing partly built is stored.                        *)
C15_InitFailureKeepsSnapshot ==
    (IsCall("Init") /\ ret.listErr # NoErr) =>
        /\ ret.err = ret.listErr
        /\ nodes = ret.preNodes

(* An Init whose listing failed after an earlier Init had taken a snapshot. *)
C15_Witness ==
    /\ IsCall("Init")
    /\ ret.listErr = [kind |-> "Timeout"]
    /\ Len(ret.preNodes) = 2

(* C19: each Init that returns nil appends to the snapshot, without        *)
(* emptying it, one Node per listed node in listing order, of Type Master  *)
(* exactly when the node is a master; nothing else changes the snapshot.   *)
(* So after n successful calls on a cluster that lists the same m nodes    *)
(* GetNodes returns n*m entries: the listing n times over.                 *)
C19_InitAppends ==
    LET m == Len(items)
    IN  /\ Len(nodes) = inits * m
        /\ \A i \in 1..Len(nodes) :
              LET n == items[((i - 1) % m) + 1]
              IN  /\ nodes[i].Name = n.Name
                  /\ nodes[i].Type \in {"Master", "Worker"}
                  /\ nodes[i].Type = "Master" <=> IsNodeMaster(n)
        /\ IsCall("GetNodes") => ret.nodes = nodes
        /\ (IsCall("Init") /\ ~Failed) =>
              /\ Len(nodes) = Len(ret.preNodes) + m
              /\ SubSeq(nodes, 1, Len(ret.preNodes)) = ret.preNodes

(* GetNodes after two successful Init calls on a cluster of a master and a *)
(* worker: four entries.                                                   *)
C19_Witness ==
    /\ IsCall("GetNodes")
    /\ inits = 2
    /\ Len(items) = 2
    /\ Len(ret.nodes) = 4
    /\ ret.nodes[1].Type = "Master"
    /\ ret.nodes[4].Type = "Worker"

(* C16: a GetVolumeParameters that returns nil returns a map whose keys   *)
(* are exactly the volumes the claims of the storage list resolved to,     *)
(* each with the parameters of the claim that resolved to it, the last one *)
(* in list order when several did; it fails exactly when a volume lookup   *)
(* or a parameter lookup fails, and then returns no map and                *)
(* FailedToGetVolumesParameters for the context's spec.                    *)
C16_GetVolumeParameters ==
    IsCall("GetVolumeParameters") =>
        LET sto    == Storage(ret.ctx.App, ret.ctx.UID)
            claims == {i \in 1..Len(sto) : IsClaim(sto[i])}
            vol(i) == ret.volumeOf[sto[i].name]
            last(v) == CHOOSE i \in claims :
                          /\ vol(i) = v
                          /\ \A j \in claims : vol(j) = v => j <= i
        IN  /\ Failed <=> \E i \in 1..Len(ret.trace) : ~ret.trace[i].ok
            /\ ~Failed =>
                  /\ DOMAIN ret.result = {vol(i) : i \in claims}
                  /\ \A v \in DOMAIN ret.result :
                        ret.result[v] = ret.paramsOf[sto[last(v)].name]
            /\ Failed =>
                  /\ ret.result = EmptyMap
                  /\ ret.err.kind = "FailedToGetVolumesParameters"
                  /\ ret.err.App = ret.ctx.App

(* Two claims that resolved to the same volume: the map has the one key,   *)
(* with the parameters of the second claim.                                *)
C16_Witness ==
    /\ IsCall("GetVolumeParameters")
    /\ ~Failed
    /\ ret.ctx.App = "legacy"
    /\ DOMAIN ret.result = {"vol-a"}
    /\ ret.result["vol-a"] = ClaimParams(<<"legacy", "run-1", "storage", 3>>)

(* The first key of the list the factory does not know. *)
FirstUnknown(appKeys) ==
    appKeys[CHOOSE i \in 1..Len(appKeys) :
                /\ ~IsRegistered(appKeys[i])
                /\ \A j \in 1..(i - 1) : IsRegistered(appKeys[j])]

(* C17: Schedule resolves every key of a non-empty AppKeys before it       *)
(* creates anything.  If a key, at whatever position, is unknown to the    *)
(* factory, Schedule returns no contexts and the factory's error as it is, *)
(* and has sent no create to the cluster, for the known keys before the    *)
(* unknown one neither.                                                    *)
C17_ResolveBeforeCreate ==
    (IsCall("Schedule") /\ ret.appKeys # <<>> /\ ~KeysKnown(ret.appKeys)) =>
        /\ ret.contexts = <<>>
        /\ ret.err = FactoryGet(FirstUnknown(ret.appKeys)).err
        /\ ret.err.kind = "UnknownAppKind"
        /\ ret.trace = <<>>
        /\ cluster = ret.pre

(* A Schedule of a known key followed by an unknown one. *)
C17_Witness ==
    /\ IsCall("Schedule")
    /\ ret.appKeys = <<"postgres", UnknownKey>>
    /\ ret.err = [kind |-> "UnknownAppKind", key |-> UnknownKey]
    /\ <<"postgres", "run-1", "storage", 1>> \notin cluster

(* The part of a cluster that is storage objects, and the part that is core. *)
StoragePart(cl) == {n \in cl : n[3] = "storage"}
CorePart(cl) == {n \in cl : n[3] = "core"}

(* The names of the storage objects of context c. *)
StorageNames(c) == {Storage(c.App, c.UID)[i].name : i \in 1..Len(Storage(c.App, c.UID))}

(* C18: WaitForRunning, Destroy and WaitForDestroy send client calls only  *)
(* for core objects and leave every storage object as it was; GetVolumes,  *)
(* GetVolumeParameters, InspectVolumes and DeleteVolumes send calls only   *)
(* for storage objects and leave every core object as it was.  So once     *)
(* Schedule, Destroy and WaitForDestroy have succeeded for a context, the  *)
(* storage objects Schedule created for it are still in the cluster, as    *)
(* long as DeleteVolumes has not been called on it.                        *)
C18_PartitionByClass ==
    /\ (ret # Idle /\ ret.op \in CoreOps) =>
          /\ \A i \in 1..Len(ret.trace) : ret.trace[i].obj.name[3] = "core"
          /\ StoragePart(cluster) = StoragePart(ret.pre)
    /\ (ret # Idle /\ ret.op \in StorageOps \cup VolumeOps) =>
          /\ \A i \in 1..Len(ret.trace) : ret.trace[i].obj.name[3] = "storage"
          /\ CorePart(cluster) = CorePart(ret.pre)
    /\ \A c \in Contexts :
          (life[c] = "destroyed" /\ ~(IsCall("DeleteVolumes") /\ ret.ctx = c)) =>
              /\ \E e \in scheduled : e[1] = c
              /\ \A e \in scheduled : e[1] = c =>
                    \A i \in 1..Len(e[2]) :
                        IsStorageCreate(e[2][i]) => e[2][i].obj.name \in cluster
              /\ StorageNames(c) \subseteq cluster

(* A postgres context scheduled, destroyed and seen destroyed: its         *)
(* deployments are gone, its storage class and claim are there.            *)
C18_Witness ==
    /\ ret = Idle
    /\ life[[UID |-> "run-1", App |-> "postgres"]] = "destroyed"
    /\ cluster = {<<"postgres", "run-1", "storage", 1>>, <<"postgres", "run-1", "storage", 2>>}

=============================================================================
